---- MODULE Spec2Model ----
(***************************************************************************)
(* touch-layer (src/src/main.rs): three blocking workers sharing one       *)
(* atomic flag, touchpad_active.                                           *)
(*   monitor_libinput      (Motion Watcher)  raises the flag               *)
(*   monitor_evdev_release (Release Watcher) lowers the flag               *)
(*   monitor_keyboard      (Remap Engine)    reads the flag per event and  *)
(*                         emits on the virtual mouse or virtual keyboard  *)
(* The physical world (finger, keys, the libinput child process and the    *)
(* kernel's event queues) is the environment.                              *)
(***************************************************************************)
EXTENDS Integers, Sequences, FiniteSets, TLC

\* ---------------------------------------------------------------- bounds
\* Capacity of the libinput child's stdout pipe (lines) and of the kernel's
\* queue of the touchpad device (events); keyboard events delivered in one
\* run, and the most one fetch_events() call returns.
MaxPipe == 1
MaxTouchQueue == 1
MaxKeys == 2
MaxBatch == 2

\* Keyboard events delivered in a run that starts before the workers do.
MaxLifeKeys == 1

\* ------------------------------------------------------------- constants
\* const DEBOUNCE_MS: u64 = 0;
DEBOUNCE_MS == 0

\* The keys of the physical keyboard the model presses.
Keys == {"KEY_F", "KEY_D", "KEY_A"}

\* evdev value encoding: 0 release, 1 press, 2 autorepeat.
InputEvent(t, c, v) == [type |-> t, code |-> c, value |-> v]

\* The non-key record a keyboard delivers with its reports.
SynReport == InputEvent("EV_SYN", "SYN_REPORT", 0)

\* A touchpad record that is a key event of value 0 but not BTN_TOOL_FINGER.
TouchRelease == InputEvent("EV_KEY", "BTN_TOUCH", 0)

\* Lines of `libinput debug-events`, as sequences of tokens ("WS" is
\* whitespace).
MotionLine == <<"WS", "event5", "POINTER_MOTION", "WS">>
NoiseLines == {<<"WS">>, <<"event5", "POINTER_BUTTON">>}

\* A line whose bytes are not UTF-8: reader.lines() yields Err for it.
BadLine == <<"INVALID_UTF8">>

\* A motion-marker line or a finger-release event, once processed.
FlagEvent(k, s) == [kind |-> k, stored |-> s]

VARIABLES
    touchpad_active,  \* the shared AtomicBool
    debounce_ms,      \* the configured debounce duration of this build
    finger,           \* physical: a finger rests on the touchpad
    keysDown,         \* physical: the keys held down
    pipe,             \* the libinput child's stdout, lines not yet read
    tpQueue,          \* kernel queue of the touchpad device
    nKeys,            \* keyboard events fetched so far
    mw_pc,            \* Motion Watcher: position
    rw_pc,            \* Release Watcher: position
    re_events,        \* Remap Engine: rest of the fetched batch
    out,              \* emissions on both virtual devices, in order
    notice,           \* what the last step of a worker wrote to stderr
    lastFlagEvent,    \* the flag-affecting event processed last, and
                      \* whether processing it stored to the flag
    fetched,          \* every keyboard event fetched so far, in order
    re_pc,            \* Remap Engine: position (start-up, loop or failed)
    devices,          \* the devices the Remap Engine holds
    ready,            \* READY=1 notifications sent: the result of each
    main_pc,          \* main(): awaiting the engine, shutting down, exited
    exit_code,        \* exit status of the process, -1 while it runs
    child,            \* the libinput child process
    phys_caps,        \* capabilities the physical keyboard advertises
    vkbd_caps         \* capabilities the virtual keyboard advertises

vars == <<touchpad_active, debounce_ms, finger, keysDown, pipe, tpQueue,
          nKeys, mw_pc, rw_pc, re_events, out, notice, lastFlagEvent,
          fetched, re_pc, devices, ready, main_pc, exit_code, child,
          phys_caps, vkbd_caps>>

envVars == <<finger, pipe, tpQueue>>
reVars == <<keysDown, nKeys, re_events, out, fetched>>
flagVars == <<touchpad_active, debounce_ms, lastFlagEvent>>
lifeVars == <<re_pc, devices, ready, main_pc, exit_code, child, phys_caps,
              vkbd_caps>>

\* ---------------------------------------------------------- capabilities
\* Option<T>: what supported_keys() and its siblings return.
None == [some |-> FALSE]
Some(x) == [some |-> TRUE, val |-> x]

\* A device as its capability bits: the event types it reports and, per
\* type, the codes.
Capabilities(ev, k, r, sw) ==
    [evbits |-> ev, keybits |-> k, relbits |-> r, swbits |-> sw]

\* Device::supported_keys / supported_relative_axes / supported_switches:
\* Some(set) when the device reports the event type, None otherwise.
supported_keys(dev) ==
    IF "EV_KEY" \in dev.evbits THEN Some(dev.keybits) ELSE None
supported_relative_axes(dev) ==
    IF "EV_REL" \in dev.evbits THEN Some(dev.relbits) ELSE None
supported_switches(dev) ==
    IF "EV_SW" \in dev.evbits THEN Some(dev.swbits) ELSE None

\* VirtualDeviceBuilder::new() and its with_* methods: each enables the
\* event type and the given codes.
NewBuilder == Capabilities({}, {}, {}, {})
with_keys(b, keys) ==
    [b EXCEPT !.evbits = @ \cup {"EV_KEY"}, !.keybits = @ \cup keys]
with_relative_axes(b, axes) ==
    [b EXCEPT !.evbits = @ \cup {"EV_REL"}, !.relbits = @ \cup axes]
with_switches(b, switches) ==
    [b EXCEPT !.evbits = @ \cup {"EV_SW"}, !.swbits = @ \cup switches]

\* Mutant: the switches are enabled from the relative-axis set.
CopySwitches_FromAxes(b, keyboard) ==
    IF supported_relative_axes(keyboard).some
    THEN with_switches(b, supported_relative_axes(keyboard).val)
    ELSE b

\* if let Some(keys) = keyboard.supported_keys() { with_keys(keys) }, and
\* the same for the relative axes and the switches.
CopyKeys(b, keyboard) ==
    IF supported_keys(keyboard).some
    THEN with_keys(b, supported_keys(keyboard).val)
    ELSE b
CopyAxes(b, keyboard) ==
    IF supported_relative_axes(keyboard).some
    THEN with_relative_axes(b, supported_relative_axes(keyboard).val)
    ELSE b
CopySwitches(b, keyboard) ==
    IF supported_switches(keyboard).some
    THEN with_switches(b, supported_switches(keyboard).val)
    ELSE b

\* fn create_virtual_keyboard(keyboard, name): the device builder.build()
\* returns.
create_virtual_keyboard(keyboard) ==
    CopySwitches(CopyAxes(CopyKeys(NewBuilder, keyboard), keyboard), keyboard)

\* The physical keyboards the model builds a virtual keyboard for: every
\* combination of present, empty and absent capability sets, with or
\* without LEDs (which create_virtual_keyboard does not look at).
PhysicalKeyboards ==
    {d \in [evbits : SUBSET {"EV_KEY", "EV_REL", "EV_SW", "EV_LED"},
            keybits : SUBSET Keys, relbits : SUBSET {"REL_WHEEL"},
            swbits : SUBSET {"SW_LID"}] :
        /\ (d.keybits # {} => "EV_KEY" \in d.evbits)
        /\ (d.relbits # {} => "EV_REL" \in d.evbits)
        /\ (d.swbits # {} => "EV_SW" \in d.evbits)}

\* The keyboard of the other specifications: keys and LEDs.
PlainKeyboard == Capabilities({"EV_KEY", "EV_LED"}, Keys, {}, {})

\* The devices monitor_keyboard holds once its start-up is through.
AllDevices == {"keyboard", "grab", "mouse", "vkbd"}

\* ------------------------------------------------------------------ Init
\* The state once the start-up of the three workers is through (the
\* libinput child spawned, the devices opened and built, READY=1 sent), in
\* a build whose debounce duration is `ms`.
\* let touchpad_active = Arc::new(AtomicBool::new(false));
Boot(ms) ==
    /\ touchpad_active = FALSE
    /\ debounce_ms = ms
    /\ finger = FALSE
    /\ keysDown = {}
    /\ pipe = <<>>
    /\ tpQueue = <<>>
    /\ nKeys = 0
    /\ mw_pc = "read"
    /\ rw_pc = "event"
    /\ re_events = <<>>
    /\ out = <<>>
    /\ notice = "none"
    /\ lastFlagEvent = FlagEvent("none", FALSE)
    /\ fetched = <<>>
    /\ re_pc = "loop"
    /\ devices = AllDevices
    /\ ready = <<TRUE>>
    /\ main_pc = "await"
    /\ exit_code = -1
    /\ child = "running"
    /\ phys_caps = PlainKeyboard
    /\ vkbd_caps = create_virtual_keyboard(PlainKeyboard)

\* The reference build.
Init == Boot(DEBOUNCE_MS)

\* The devices monitor_keyboard holds when it is at `pc` of its start-up.
DevicesAt(pc) ==
    CASE pc = "open" -> {}
      [] pc = "grab" -> {"keyboard"}
      [] pc = "mouse" -> {"keyboard", "grab"}
      [] pc = "vkbd" -> {"keyboard", "grab", "mouse"}

\* The reference build with monitor_keyboard at `pc` of its start-up, the
\* two watchers spawned on the blocking pool but not yet running, and a
\* physical keyboard out of `kbds`.
Start(pc, kbds) ==
    /\ touchpad_active = FALSE
    /\ debounce_ms = DEBOUNCE_MS
    /\ finger = FALSE
    /\ keysDown = {}
    /\ pipe = <<>>
    /\ tpQueue = <<>>
    /\ nKeys = 0
    /\ mw_pc = "queued"
    /\ rw_pc = "queued"
    /\ re_events = <<>>
    /\ out = <<>>
    /\ notice = "none"
    /\ lastFlagEvent = FlagEvent("none", FALSE)
    /\ fetched = <<>>
    /\ re_pc = pc
    /\ devices = DevicesAt(pc)
    /\ ready = <<>>
    /\ main_pc = "await"
    /\ exit_code = -1
    /\ child = "none"
    /\ phys_caps \in kbds
    /\ vkbd_caps = None

\* main() has spawned the three workers and awaits monitor_keyboard.
InitLife == Start("open", {PlainKeyboard})

\* monitor_keyboard is about to call create_virtual_keyboard, for any
\* physical keyboard.
InitCaps == Start("vkbd", PhysicalKeyboards)

\* A build with the 50 ms debounce of the spec's scenario D: the branch at
\* main.rs:90 is taken.
InitDebounce == Boot(50)

\* ------------------------------------------------------ pure helpers
\* str::trim on a line of tokens: leading and trailing whitespace removed.
RECURSIVE TrimStart(_)
TrimStart(s) ==
    IF s # <<>> /\ Head(s) = "WS" THEN TrimStart(Tail(s)) ELSE s

RECURSIVE TrimEnd(_)
TrimEnd(s) ==
    IF s # <<>> /\ s[Len(s)] = "WS" THEN TrimEnd(SubSeq(s, 1, Len(s) - 1)) ELSE s

Trim(s) == TrimEnd(TrimStart(s))

\* let line = line?: the item of reader.lines() is Ok for a UTF-8 line.
ValidUtf8(line) == \A i \in 1..Len(line) : line[i] # "INVALID_UTF8"

\* Mutant: the line is compared with the marker instead of searched for it.
ContainsMotion_WholeLine(trimmed) == trimmed = <<"POINTER_MOTION">>

\* trimmed.contains("POINTER_MOTION")
ContainsMotion(trimmed) ==
    \E i \in 1..Len(trimmed) : trimmed[i] = "POINTER_MOTION"

\* Mutant: the negation is lost.
MotionActivates_Inverted(loaded) == loaded

\* Mutant: the store is not guarded by the load.
MotionActivates_Always(loaded) == TRUE

\* if !touchpad_active.load(Ordering::Relaxed)
MotionActivates(loaded) == ~loaded

\* touchpad_active.store(true, Ordering::Relaxed)
MotionStoreValue == TRUE

\* event.kind(): the kind follows the event's type.
Kind(event) ==
    IF event.type = "EV_KEY" THEN <<"Key", event.code>>
    ELSE <<"Other", event.code>>

\* Mutant: the test of the event's value is lost.
IsFingerRelease_AnyValue(event) == Kind(event) = <<"Key", "BTN_TOOL_FINGER">>

\* if let InputEventKind::Key(Key::BTN_TOOL_FINGER) = event.kind()
\*     if event.value() == 0
IsFingerRelease(event) ==
    Kind(event) = <<"Key", "BTN_TOOL_FINGER">> /\ event.value = 0

\* Mutant: the store of false is not guarded by the load.
ReleaseDeactivates_Always(loaded) == TRUE

\* if touchpad_active.load(Ordering::Relaxed)
ReleaseDeactivates(loaded) == loaded

\* Mutant: >= for >.
DebounceSleeps_Always(ms) == ms >= 0

\* if DEBOUNCE_MS > 0
DebounceSleeps(ms) == ms > 0

\* Mutant: the Release Watcher stores the Motion Watcher's value.
ReleaseStoreValue_True == TRUE

\* touchpad_active.store(false, Ordering::Relaxed)
ReleaseStoreValue == FALSE

\* let is_active = touchpad_active.load(Ordering::Relaxed);
LoadIsActive(flag) == flag

\* Mutant: the two arms of the match emit each other's button.
MouseEmit_SwappedButtons(event, active) ==
    IF event.type = "EV_KEY" /\ active
    THEN CASE Kind(event) = <<"Key", "KEY_F">> ->
                <<[dev |-> "mouse",
                   ev |-> InputEvent("EV_KEY", "BTN_RIGHT", event.value)]>>
           [] Kind(event) = <<"Key", "KEY_D">> ->
                <<[dev |-> "mouse",
                   ev |-> InputEvent("EV_KEY", "BTN_LEFT", event.value)]>>
           [] OTHER -> <<>>
    ELSE <<>>

\* Mutant: the catch-all arm of the match clicks the middle button.
MouseEmit_MiddleForOthers(event, active) ==
    IF event.type = "EV_KEY" /\ active
    THEN CASE Kind(event) = <<"Key", "KEY_F">> ->
                <<[dev |-> "mouse",
                   ev |-> InputEvent("EV_KEY", "BTN_LEFT", event.value)]>>
           [] Kind(event) = <<"Key", "KEY_D">> ->
                <<[dev |-> "mouse",
                   ev |-> InputEvent("EV_KEY", "BTN_RIGHT", event.value)]>>
           [] OTHER ->
                <<[dev |-> "mouse",
                   ev |-> InputEvent("EV_KEY", "BTN_MIDDLE", event.value)]>>
    ELSE <<>>

\* What the match of monitor_keyboard emits on the virtual mouse.
MouseEmit(event, active) ==
    IF event.type = "EV_KEY" /\ active
    THEN CASE Kind(event) = <<"Key", "KEY_F">> ->
                <<[dev |-> "mouse",
                   ev |-> InputEvent("EV_KEY", "BTN_LEFT", event.value)]>>
           [] Kind(event) = <<"Key", "KEY_D">> ->
                <<[dev |-> "mouse",
                   ev |-> InputEvent("EV_KEY", "BTN_RIGHT", event.value)]>>
           [] OTHER -> <<>>
    ELSE <<>>

\* if event.value() == 1 { eprintln!("F -> LEFT CLICK") }, and for D.
EngineNotice(event, active) ==
    IF event.type = "EV_KEY" /\ active /\ event.value = 1
    THEN CASE Kind(event) = <<"Key", "KEY_F">> -> "F LEFT CLICK"
           [] Kind(event) = <<"Key", "KEY_D">> -> "D RIGHT CLICK"
           [] OTHER -> "none"
    ELSE "none"

\* Mutant: `handled = true` is forgotten in both arms.
Handled_NeverSet(event, active) == FALSE

\* The value of `handled` after the match.
Handled(event, active) ==
    /\ event.type = "EV_KEY" /\ active
    /\ Kind(event) \in {<<"Key", "KEY_F">>, <<"Key", "KEY_D">>}

\* if !handled { virtual_kbd.emit(&[event])?; }
KbdEmit(event, handled) ==
    IF ~handled THEN <<[dev |-> "kbd", ev |-> event]>> ELSE <<>>

\* ----------------------------------------------------------- environment
\* A finger lands on the touchpad: the kernel reports BTN_TOOL_FINGER 1.
FingerDown ==
    /\ ~finger /\ Len(tpQueue) < MaxTouchQueue
    /\ finger' = TRUE
    /\ tpQueue' = Append(tpQueue, InputEvent("EV_KEY", "BTN_TOOL_FINGER", 1))
    /\ UNCHANGED <<touchpad_active, debounce_ms, pipe, mw_pc, rw_pc,
                   reVars, notice, lastFlagEvent>>
    /\ UNCHANGED lifeVars

\* The finger leaves the touchpad: the kernel reports BTN_TOOL_FINGER 0.
FingerUp ==
    /\ finger /\ Len(tpQueue) < MaxTouchQueue
    /\ finger' = FALSE
    /\ tpQueue' = Append(tpQueue, InputEvent("EV_KEY", "BTN_TOOL_FINGER", 0))
    /\ UNCHANGED <<touchpad_active, debounce_ms, pipe, mw_pc, rw_pc,
                   reVars, notice, lastFlagEvent>>
    /\ UNCHANGED lifeVars

\* The finger moves: the libinput child writes a POINTER_MOTION line.
FingerMove ==
    /\ child = "running"
    /\ finger /\ Len(pipe) < MaxPipe
    /\ pipe' = Append(pipe, MotionLine)
    /\ UNCHANGED <<touchpad_active, debounce_ms, finger, tpQueue, mw_pc,
                   rw_pc, reVars, notice, lastFlagEvent>>
    /\ UNCHANGED lifeVars

\* The libinput child writes a line without the marker.
LibinputNoise ==
    /\ child = "running"
    /\ Len(pipe) < MaxPipe
    /\ \E l \in NoiseLines : pipe' = Append(pipe, l)
    /\ UNCHANGED <<touchpad_active, debounce_ms, finger, tpQueue, mw_pc,
                   rw_pc, reVars, notice, lastFlagEvent>>
    /\ UNCHANGED lifeVars

\* The touchpad reports something other than BTN_TOOL_FINGER.
TouchpadNoise ==
    /\ Len(tpQueue) < MaxTouchQueue
    /\ tpQueue' = Append(tpQueue, TouchRelease)
    /\ UNCHANGED <<touchpad_active, debounce_ms, finger, pipe, mw_pc,
                   rw_pc, reVars, notice, lastFlagEvent>>
    /\ UNCHANGED lifeVars

\* The events a keyboard with the keys `down` held can deliver next.
KeyboardEvents(down) ==
    {InputEvent("EV_KEY", k, 1) : k \in Keys \ down}
        \cup {InputEvent("EV_KEY", k, v) : k \in down, v \in {0, 2}}
        \cup {SynReport}

\* The keys held after the keyboard delivered `e`.
KeysAfter(down, e) ==
    IF e.type # "EV_KEY" THEN down
    ELSE IF e.value = 0 THEN down \ {e.code}
    ELSE down \cup {e.code}

RECURSIVE KeysAfterAll(_, _)
KeysAfterAll(down, es) ==
    IF es = <<>> THEN down
    ELSE KeysAfterAll(KeysAfter(down, Head(es)), Tail(es))

\* The batches of exactly n events a keyboard can deliver from `down`.
RECURSIVE Batches(_, _)
Batches(down, n) ==
    IF n = 0 THEN {<<>>}
    ELSE UNION {{<<e>> \o b : b \in Batches(KeysAfter(down, e), n - 1)} :
                    e \in KeyboardEvents(down)}

\* -------------------------------------------- Motion Watcher (main.rs:58)
\* One iteration of `for line in reader.lines()`, up to and including the
\* load of the flag.
MW_Line ==
    /\ mw_pc = "read" /\ pipe # <<>> /\ ValidUtf8(Head(pipe))
    /\ pipe' = Tail(pipe)
    /\ LET trimmed == Trim(Head(pipe)) IN
         IF trimmed # <<>> /\ ContainsMotion(trimmed)
         THEN IF MotionActivates(touchpad_active)
              THEN /\ mw_pc' = "store"
                   /\ UNCHANGED lastFlagEvent
              ELSE /\ mw_pc' = "read"
                   /\ lastFlagEvent' = FlagEvent("motion", FALSE)
         ELSE /\ mw_pc' = "read"
              /\ UNCHANGED lastFlagEvent
    /\ notice' = "none"
    /\ UNCHANGED <<touchpad_active, debounce_ms, finger, tpQueue, rw_pc,
                   reVars>>
    /\ UNCHANGED lifeVars

\* touchpad_active.store(true); eprintln!("... mode ACTIVE")
MW_Store ==
    /\ mw_pc = "store"
    /\ touchpad_active' = MotionStoreValue
    /\ notice' = "ACTIVE"
    /\ lastFlagEvent' = FlagEvent("motion", TRUE)
    /\ mw_pc' = "read"
    /\ UNCHANGED <<debounce_ms, envVars, rw_pc, reVars>>
    /\ UNCHANGED lifeVars

\* ------------------------------------------- Release Watcher (main.rs:83)
\* Mutant: the flag is cleared before the debounce sleep instead of after.
RW_Event_StoreBeforeSleep ==
    /\ rw_pc = "event" /\ tpQueue # <<>>
    /\ tpQueue' = Tail(tpQueue)
    /\ LET event == Head(tpQueue) IN
         IF IsFingerRelease(event)
         THEN IF ReleaseDeactivates(touchpad_active)
              THEN /\ touchpad_active' = ReleaseStoreValue
                   /\ notice' = IF DebounceSleeps(debounce_ms)
                                THEN "WAITING" ELSE "none"
                   /\ rw_pc' = IF DebounceSleeps(debounce_ms)
                               THEN "sleep" ELSE "store"
                   /\ UNCHANGED lastFlagEvent
              ELSE /\ rw_pc' = "event"
                   /\ lastFlagEvent' = FlagEvent("release", FALSE)
                   /\ notice' = "none"
                   /\ UNCHANGED touchpad_active
         ELSE /\ rw_pc' = "event"
              /\ notice' = "none"
              /\ UNCHANGED <<touchpad_active, lastFlagEvent>>
    /\ UNCHANGED <<debounce_ms, finger, pipe, mw_pc, reVars>>
    /\ UNCHANGED lifeVars

\* One event of the touchpad, fetched and taken through the loop body up to
\* the sleep or the store.
RW_Event ==
    /\ rw_pc = "event" /\ tpQueue # <<>>
    /\ tpQueue' = Tail(tpQueue)
    /\ LET event == Head(tpQueue) IN
         IF IsFingerRelease(event)
         THEN IF ReleaseDeactivates(touchpad_active)
              THEN IF DebounceSleeps(debounce_ms)
                   THEN /\ notice' = "WAITING"
                        /\ rw_pc' = "sleep"
                        /\ UNCHANGED lastFlagEvent
                   ELSE /\ notice' = "none"
                        /\ rw_pc' = "store"
                        /\ UNCHANGED lastFlagEvent
              ELSE /\ rw_pc' = "event"
                   /\ lastFlagEvent' = FlagEvent("release", FALSE)
                   /\ notice' = "none"
         ELSE /\ rw_pc' = "event"
              /\ notice' = "none"
              /\ UNCHANGED lastFlagEvent
    /\ UNCHANGED <<touchpad_active, debounce_ms, finger, pipe, mw_pc,
                   reVars>>
    /\ UNCHANGED lifeVars

\* thread::sleep(Duration::from_millis(DEBOUNCE_MS)) returns.
RW_Wake ==
    /\ rw_pc = "sleep"
    /\ rw_pc' = "store"
    /\ notice' = "none"
    /\ UNCHANGED <<touchpad_active, debounce_ms, envVars, mw_pc, reVars,
                   lastFlagEvent>>
    /\ UNCHANGED lifeVars

\* touchpad_active.store(false); eprintln!("... Mode DEACTIVATED")
RW_Store ==
    /\ rw_pc = "store"
    /\ touchpad_active' = ReleaseStoreValue
    /\ notice' = "DEACTIVATED"
    /\ lastFlagEvent' = FlagEvent("release", TRUE)
    /\ rw_pc' = "event"
    /\ UNCHANGED <<debounce_ms, envVars, mw_pc, reVars>>
    /\ UNCHANGED lifeVars

\* ---------------------------------------------- Remap Engine (main.rs:166)
\* let events = keyboard.fetch_events()?  The batch is the input: whatever
\* the keyboard delivered since the last fetch.
Fetch(batchMax, keysMax) ==
    /\ re_pc = "loop" /\ re_events = <<>>
    /\ \E n \in 1..batchMax :
         /\ nKeys + n <= keysMax
         /\ \E batch \in Batches(keysDown, n) :
              /\ re_events' = batch
              /\ fetched' = fetched \o batch
              /\ keysDown' = KeysAfterAll(keysDown, batch)
         /\ nKeys' = nKeys + n
    /\ notice' = "none"
    /\ UNCHANGED <<touchpad_active, debounce_ms, envVars, mw_pc, rw_pc,
                   out, lastFlagEvent>>
    /\ UNCHANGED lifeVars

\* Batches of up to MaxBatch events, MaxKeys events in all.
RE_Fetch == Fetch(MaxBatch, MaxKeys)

\* The same call where the keyboard delivers one event at a time,
\* MaxLifeKeys events in all.
RE_FetchOne == Fetch(1, MaxLifeKeys)

\* Mutant: the flag is loaded once per fetched batch and the whole batch is
\* routed by that value.
RECURSIVE EmitAll(_, _)
EmitAll(events, active) ==
    IF events = <<>> THEN <<>>
    ELSE MouseEmit(Head(events), active)
             \o KbdEmit(Head(events), Handled(Head(events), active))
             \o EmitAll(Tail(events), active)

RE_Event_FlagPerBatch ==
    /\ re_pc = "loop" /\ re_events # <<>>
    /\ LET is_active == LoadIsActive(touchpad_active) IN
         /\ out' = out \o EmitAll(re_events, is_active)
         /\ notice' = EngineNotice(re_events[Len(re_events)], is_active)
    /\ re_events' = <<>>
    /\ UNCHANGED <<touchpad_active, debounce_ms, envVars, mw_pc, rw_pc,
                   keysDown, nKeys, fetched, lastFlagEvent>>
    /\ UNCHANGED lifeVars

\* One iteration of `for event in events`: load the flag, route, emit.
RE_Event ==
    /\ re_pc = "loop" /\ re_events # <<>>
    /\ LET event == Head(re_events)
           is_active == LoadIsActive(touchpad_active) IN
         /\ out' = out \o MouseEmit(event, is_active)
                       \o KbdEmit(event, Handled(event, is_active))
         /\ notice' = EngineNotice(event, is_active)
    /\ re_events' = Tail(re_events)
    /\ UNCHANGED <<touchpad_active, debounce_ms, envVars, mw_pc, rw_pc,
                   keysDown, nKeys, fetched, lastFlagEvent>>
    /\ UNCHANGED lifeVars

\* ------------------------------------- Remap Engine start-up (main.rs:129)
\* Device::open(KEYBOARD_PATH)
RE_Open ==
    /\ re_pc = "open"
    /\ devices' = devices \cup {"keyboard"}
    /\ re_pc' = "grab"
    /\ notice' = "none"
    /\ UNCHANGED <<flagVars, envVars, reVars, mw_pc, rw_pc, ready, main_pc,
                   exit_code, child, phys_caps, vkbd_caps>>

\* keyboard.grab()
RE_Grab ==
    /\ re_pc = "grab"
    /\ devices' = devices \cup {"grab"}
    /\ re_pc' = "mouse"
    /\ notice' = "none"
    /\ UNCHANGED <<flagVars, envVars, reVars, mw_pc, rw_pc, ready, main_pc,
                   exit_code, child, phys_caps, vkbd_caps>>

\* Mutant: READY=1 is sent as soon as the virtual mouse is built.
RE_BuildMouse_NotifyEarly ==
    /\ re_pc = "mouse"
    /\ devices' = devices \cup {"mouse"}
    /\ \E delivered \in BOOLEAN : ready' = Append(ready, delivered)
    /\ re_pc' = "vkbd"
    /\ notice' = "none"
    /\ UNCHANGED <<flagVars, envVars, reVars, mw_pc, rw_pc, main_pc,
                   exit_code, child, phys_caps, vkbd_caps>>

\* VirtualDeviceBuilder::new()? ... .build()? for the virtual mouse
RE_BuildMouse ==
    /\ re_pc = "mouse"
    /\ devices' = devices \cup {"mouse"}
    /\ re_pc' = "vkbd"
    /\ notice' = "none"
    /\ UNCHANGED <<flagVars, envVars, reVars, mw_pc, rw_pc, ready, main_pc,
                   exit_code, child, phys_caps, vkbd_caps>>

\* let mut virtual_kbd = create_virtual_keyboard(&keyboard, ...)?
RE_BuildKbd ==
    /\ re_pc = "vkbd"
    /\ vkbd_caps' = create_virtual_keyboard(phys_caps)
    /\ devices' = devices \cup {"vkbd"}
    /\ re_pc' = "notify"
    /\ notice' = "none"
    /\ UNCHANGED <<flagVars, envVars, reVars, mw_pc, rw_pc, ready, main_pc,
                   exit_code, child, phys_caps>>

\* eprintln!("Ready! ..."); let _ = systemd::daemon::notify(..READY=1..):
\* the notification is delivered or not, and the result is dropped.
RE_Notify ==
    /\ re_pc = "notify"
    /\ \E delivered \in BOOLEAN : ready' = Append(ready, delivered)
    /\ re_pc' = "loop"
    /\ notice' = "READY"
    /\ UNCHANGED <<flagVars, envVars, reVars, mw_pc, rw_pc, devices, main_pc,
                   exit_code, child, phys_caps, vkbd_caps>>

\* A `?` of monitor_keyboard returns the error: the function's locals (the
\* keyboard with its grab, the virtual devices) are dropped.
ReturnErr ==
    /\ re_pc' = "failed"
    /\ devices' = {}
    /\ notice' = "none"
    /\ UNCHANGED <<flagVars, envVars, reVars, mw_pc, rw_pc, ready, main_pc,
                   exit_code, child, phys_caps, vkbd_caps>>

\* The open, the grab or the build of a virtual device fails.
RE_StartFail ==
    /\ re_pc \in {"open", "grab", "mouse", "vkbd"}
    /\ ReturnErr

\* keyboard.fetch_events() fails.
RE_FetchFail ==
    /\ re_pc = "loop" /\ re_events = <<>>
    /\ ReturnErr

\* mouse.emit(..)? or virtual_kbd.emit(..)? fails: nothing is emitted.
RE_EmitFail ==
    /\ re_pc = "loop" /\ re_events # <<>>
    /\ ReturnErr

\* ------------------------------------------ watchers' start and end
\* StdCommand::new("libinput") ... .spawn()?
MW_Spawn ==
    /\ mw_pc = "queued"
    /\ child' = "running"
    /\ mw_pc' = "read"
    /\ notice' = "none"
    /\ UNCHANGED <<flagVars, envVars, reVars, rw_pc, re_pc, devices, ready,
                   main_pc, exit_code, phys_caps, vkbd_caps>>

\* .spawn() fails: .context("Failed to spawn libinput")?
MW_SpawnFail ==
    /\ mw_pc = "queued"
    /\ mw_pc' = "err"
    /\ notice' = "none"
    /\ UNCHANGED <<flagVars, envVars, reVars, rw_pc>>
    /\ UNCHANGED lifeVars

\* let line = line?; on a line that is not UTF-8: the function returns Err.
MW_BadLine ==
    /\ mw_pc = "read" /\ pipe # <<>> /\ ~ValidUtf8(Head(pipe))
    /\ pipe' = Tail(pipe)
    /\ mw_pc' = "err"
    /\ notice' = "none"
    /\ UNCHANGED <<flagVars, finger, tpQueue, reVars, rw_pc>>
    /\ UNCHANGED lifeVars

\* reader.lines() is exhausted (the child closed its stdout): the for loop
\* ends and the function returns Ok(()) (main.rs:74).
MW_Eof ==
    /\ mw_pc = "read" /\ pipe = <<>> /\ child = "exited"
    /\ mw_pc' = "ok"
    /\ notice' = "none"
    /\ UNCHANGED <<flagVars, envVars, reVars, rw_pc>>
    /\ UNCHANGED lifeVars

\* Device::open(TOUCHPAD_PATH)
RW_Open ==
    /\ rw_pc = "queued"
    /\ rw_pc' = "event"
    /\ notice' = "none"
    /\ UNCHANGED <<flagVars, envVars, reVars, mw_pc>>
    /\ UNCHANGED lifeVars

\* Device::open fails: .context("Failed to open touchpad")?
RW_OpenFail ==
    /\ rw_pc = "queued"
    /\ rw_pc' = "err"
    /\ notice' = "none"
    /\ UNCHANGED <<flagVars, envVars, reVars, mw_pc>>
    /\ UNCHANGED lifeVars

\* touchpad.fetch_events() fails: .context("Failed to fetch events")?
RW_FetchFail ==
    /\ rw_pc = "event"
    /\ rw_pc' = "err"
    /\ notice' = "none"
    /\ UNCHANGED <<flagVars, envVars, reVars, mw_pc>>
    /\ UNCHANGED lifeVars

\* The libinput child exits: its end of the pipe is closed.
ChildExit ==
    /\ child = "running"
    /\ child' = "exited"
    /\ UNCHANGED <<flagVars, envVars, reVars, mw_pc, rw_pc, notice, re_pc,
                   devices, ready, main_pc, exit_code, phys_caps, vkbd_caps>>

\* The libinput child writes bytes that are not UTF-8.
LibinputGarbage ==
    /\ child = "running"
    /\ Len(pipe) < MaxPipe
    /\ pipe' = Append(pipe, BadLine)
    /\ UNCHANGED <<flagVars, finger, tpQueue, reVars, mw_pc, rw_pc, notice>>
    /\ UNCHANGED lifeVars

\* ------------------------------------------------------- main (main.rs:36)
\* Mutant: main awaits all three workers and returns on the first to end.
AwaitDone_AnyWorker ==
    re_pc = "failed" \/ mw_pc \in {"ok", "err"} \/ rw_pc = "err"

\* spawn_blocking(monitor_keyboard).await: the one JoinHandle main awaits
\* resolves when monitor_keyboard has returned.
AwaitDone == re_pc = "failed"

\* The blocking pool holds no running closure: a spawn_blocking closure
\* runs until it returns, and one not yet started may be dropped unrun.
BlockingPoolIdle ==
    /\ mw_pc \in {"queued", "ok", "err"}
    /\ rw_pc \in {"queued", "err"}

\* .await?? returns the engine's error out of main's body; #[tokio::main]
\* drops the runtime it built.
Main_Join ==
    /\ main_pc = "await" /\ AwaitDone
    /\ main_pc' = "shutdown"
    /\ UNCHANGED <<flagVars, envVars, reVars, mw_pc, rw_pc, notice, re_pc,
                   devices, ready, exit_code, child, phys_caps, vkbd_caps>>

\* What the end of the process makes of a worker at `pc`: one that has
\* returned keeps its outcome, any other is gone.
Ended(pc) == IF pc \in {"ok", "err", "failed"} THEN pc ELSE "gone"

\* Termination::report of main's Result: Err is ExitCode::FAILURE.
ExitFailure == 1

\* The drop of the runtime returns once the blocking pool is idle; main
\* returns Err and the process, with every thread of it, ends with
\* status 1.
Main_Exit ==
    /\ main_pc = "shutdown" /\ BlockingPoolIdle
    /\ main_pc' = "exited"
    /\ exit_code' = ExitFailure
    /\ mw_pc' = Ended(mw_pc)
    /\ rw_pc' = Ended(rw_pc)
    /\ UNCHANGED <<flagVars, envVars, reVars, notice, re_pc, devices, ready,
                   child, phys_caps, vkbd_caps>>

\* ------------------------------------------------------------------ Spec
\* The reference build never sleeps: DEBOUNCE_MS is 0.
Next ==
    \/ FingerDown \/ FingerUp \/ FingerMove \/ LibinputNoise
    \/ TouchpadNoise
    \/ MW_Line \/ MW_Store
    \/ RW_Event \/ RW_Store
    \/ RE_Fetch \/ RE_Event

Spec == Init /\ [][Next]_vars

\* The build with a debounce sleeps before every store of false.
NextDebounce ==
    \/ FingerDown \/ FingerUp \/ FingerMove \/ LibinputNoise
    \/ TouchpadNoise
    \/ MW_Line \/ MW_Store
    \/ RW_Event \/ RW_Wake \/ RW_Store
    \/ RE_Fetch \/ RE_Event

SpecDebounce == InitDebounce /\ [][NextDebounce]_vars

\* The process from the start of its workers to its exit.
NextLife ==
    \/ FingerDown \/ FingerUp \/ FingerMove \/ ChildExit \/ LibinputGarbage
    \/ MW_Spawn \/ MW_SpawnFail \/ MW_Line \/ MW_Store \/ MW_BadLine \/ MW_Eof
    \/ RW_Open \/ RW_OpenFail \/ RW_Event \/ RW_Store \/ RW_FetchFail
    \/ RE_Open \/ RE_Grab \/ RE_BuildMouse \/ RE_BuildKbd \/ RE_Notify
    \/ RE_FetchOne \/ RE_Event
    \/ RE_StartFail \/ RE_FetchFail \/ RE_EmitFail
    \/ Main_Join \/ Main_Exit

SpecLife == InitLife /\ [][NextLife]_vars

\* create_virtual_keyboard applied to every physical keyboard.
NextCaps == RE_BuildKbd

SpecCaps == InitCaps /\ [][NextCaps]_vars

\* ================================================================ claims
\* The spec's RemapTable: physical key -> synthesized mouse button.
RemapTable == ("KEY_F" :> "BTN_LEFT") @@ ("KEY_D" :> "BTN_RIGHT")

Last(s) == s[Len(s)]

\* This step is one iteration of the Remap Engine's `for event in events`.
EngineStep == re_events # <<>> /\ re_events' = Tail(re_events)

\* This step is the Motion Watcher taking a marker line off the pipe.
MotionLineStep ==
    /\ mw_pc = "read" /\ pipe # <<>> /\ Head(pipe) = MotionLine
    /\ pipe' = Tail(pipe)

\* This step is the Release Watcher taking a finger-release off the queue.
FingerReleaseStep ==
    /\ rw_pc = "event" /\ tpQueue # <<>>
    /\ Head(tpQueue) = InputEvent("EV_KEY", "BTN_TOOL_FINGER", 0)
    /\ tpQueue' = Tail(tpQueue)

IsRemappedKey(e) == e.type = "EV_KEY" /\ e.code \in DOMAIN RemapTable

\* The emission the spec's routing rule asks for.
Remapped(e) ==
    [dev |-> "mouse", ev |-> InputEvent("EV_KEY", RemapTable[e.code], e.value)]

Forwarded(e) == [dev |-> "kbd", ev |-> e]

Routed(e, flag) ==
    IF IsRemappedKey(e) /\ flag THEN Remapped(e) ELSE Forwarded(e)

\* Nothing is in flight in either watcher.
Quiescent ==
    pipe = <<>> /\ tpQueue = <<>> /\ mw_pc = "read" /\ rw_pc = "event"

\* The debounce window: from the load that saw true to the store of false.
InWindow == rw_pc \in {"sleep", "store"}

\* C1: every keyboard event the Remap Engine has processed produced exactly
\* one emission, on the virtual mouse or on the virtual keyboard: the number
\* of emissions equals the number of processed events in every state.
C1_ExactlyOneEmission ==
    /\ Len(out) = nKeys - Len(re_events)
    /\ \A i \in 1..Len(out) : out[i].dev \in {"mouse", "kbd"}

C1_Witness ==
    /\ re_events = <<>> /\ Len(out) = 2
    /\ out[1].dev = "mouse" /\ out[2].dev = "kbd"

\* C2: the emission for an event is the mapped button with the same value on
\* the virtual mouse iff the event is a key event of a RemapTable key and the
\* flag loaded for it is true; otherwise it is the unmodified event on the
\* virtual keyboard.
C2_Routing ==
    [][EngineStep =>
         out' = Append(out, Routed(Head(re_events), touchpad_active))]_vars

C2_Witness ==
    \E i, j \in 1..Len(out) :
        /\ out[i] = [dev |-> "mouse",
                     ev |-> InputEvent("EV_KEY", "BTN_RIGHT", 1)]
        /\ out[j] = [dev |-> "kbd", ev |-> InputEvent("EV_KEY", "KEY_F", 1)]

\* C3: a key is emitted as a mouse button only if the physical finger is on
\* the touchpad when the key event is processed.
C3_OnlyWhileFingerPresent ==
    [][(EngineStep /\ Last(out').dev = "mouse") => finger]_vars

\* C4: on the virtual mouse, a press of a button is followed by a release of
\* that button before its next press, and once the physical key is released
\* and its release processed, every press has its release.
C4_MousePairing ==
    \A k \in DOMAIN RemapTable :
        LET idx == {i \in 1..Len(out) :
                       out[i].dev = "mouse" /\ out[i].ev.code = RemapTable[k]}
            ReleasedWithin(i, j) ==
                \E m \in idx : i < m /\ m < j /\ out[m].ev.value = 0
        IN  /\ \A i, j \in idx :
                   (i < j /\ out[i].ev.value = 1 /\ out[j].ev.value = 1)
                       => ReleasedWithin(i, j)
            /\ (k \notin keysDown /\ re_events = <<>>)
                   => \A i \in idx :
                          out[i].ev.value = 1
                              => ReleasedWithin(i, Len(out) + 1)

\* C5: once every marker line and finger-release has been processed, the
\* flag is the value of the one processed last: true for a marker line,
\* false for a release (whose store comes after the debounce sleep).
C5_FlagFollowsLastEvent ==
    Quiescent => (touchpad_active <=> lastFlagEvent.kind = "motion")

C5_Witness ==
    /\ Quiescent /\ ~finger
    /\ lastFlagEvent = FlagEvent("motion", TRUE)
    /\ touchpad_active

\* C6: a marker line processed while the flag is true stores nothing and
\* writes no notice; a finger-release processed while the flag is false
\* stores nothing, does not sleep and writes no notice.
C6_Idempotence ==
    [][/\ (MotionLineStep /\ touchpad_active)
            => (touchpad_active' /\ mw_pc' = "read" /\ notice' = "none")
       /\ (FingerReleaseStep /\ ~touchpad_active)
            => (~touchpad_active' /\ rw_pc' = "event" /\ notice' = "none")
      ]_vars

C6_Witness ==
    /\ lastFlagEvent = FlagEvent("motion", FALSE)
    /\ touchpad_active /\ mw_pc = "read" /\ notice = "none"

\* C7: with a debounce > 0 the flag reads true during the whole debounce
\* window, and a remapped-key event processed inside the window is emitted
\* on the virtual mouse.
C7_DebounceWindow ==
    /\ []((debounce_ms > 0 /\ InWindow) => touchpad_active)
    /\ [][(debounce_ms > 0 /\ InWindow /\ EngineStep
              /\ IsRemappedKey(Head(re_events)))
            => out' = Append(out, Remapped(Head(re_events)))]_vars

C7_Witness ==
    /\ debounce_ms > 0 /\ rw_pc = "sleep"
    /\ notice = "F LEFT CLICK"
    /\ out # <<>> /\ Last(out) = Remapped(InputEvent("EV_KEY", "KEY_F", 1))

\* C8: with debounce = 0 the Release Watcher goes from a finger-release seen
\* with the flag true straight to the store, never sleeping; once it has
\* processed a release the flag is false, and a press of a remapped key
\* processed before any further marker line goes unmodified to the virtual
\* keyboard.
C8_Deactivation ==
    /\ [](debounce_ms = 0 =>
            /\ rw_pc # "sleep" /\ notice # "WAITING"
            /\ (lastFlagEvent.kind = "release" => ~touchpad_active))
    /\ [][/\ (debounce_ms = 0 /\ FingerReleaseStep /\ touchpad_active)
               => rw_pc' = "store"
          /\ (debounce_ms = 0 /\ rw_pc = "store" /\ rw_pc' # "store")
               => ~touchpad_active'
          /\ (debounce_ms = 0 /\ lastFlagEvent.kind = "release" /\ EngineStep
                 /\ IsRemappedKey(Head(re_events))
                 /\ Head(re_events).value = 1)
               => out' = Append(out, Forwarded(Head(re_events)))
         ]_vars

C8_Witness ==
    /\ debounce_ms = 0
    /\ lastFlagEvent = FlagEvent("release", TRUE)
    /\ out = <<Remapped(InputEvent("EV_KEY", "KEY_D", 1)),
               Forwarded(InputEvent("EV_KEY", "KEY_F", 1))>>

\* C9: a marker line processed with the flag false leads to the store of
\* true; once the Motion Watcher has processed a marker line the flag is
\* true, and a press of KEY_F processed before any finger-release produces
\* exactly BTN_LEFT value 1 on the virtual mouse and nothing on the virtual
\* keyboard.
C9_Activation ==
    /\ [](lastFlagEvent.kind = "motion" => touchpad_active)
    /\ [][/\ (MotionLineStep /\ ~touchpad_active) => mw_pc' = "store"
          /\ (mw_pc = "store" /\ mw_pc' # "store")
               => (touchpad_active' /\ notice' = "ACTIVE")
          /\ (lastFlagEvent.kind = "motion" /\ EngineStep
                 /\ Head(re_events) = InputEvent("EV_KEY", "KEY_F", 1))
               => out' = Append(out,
                      [dev |-> "mouse",
                       ev |-> InputEvent("EV_KEY", "BTN_LEFT", 1)])
         ]_vars

C9_Witness ==
    /\ lastFlagEvent = FlagEvent("motion", TRUE)
    /\ notice = "F LEFT CLICK"
    /\ out = <<[dev |-> "mouse", ev |-> InputEvent("EV_KEY", "BTN_LEFT", 1)]>>

\* C10: the flag starts false; it changes only in a store of the Motion
\* Watcher, which stores true, or of the Release Watcher, which stores
\* false; no step of the Remap Engine changes it.
C10_WriterRoles ==
    /\ touchpad_active = FALSE
    /\ [][/\ (mw_pc = "store" /\ mw_pc' # "store") => touchpad_active'
          /\ (rw_pc = "store" /\ rw_pc' # "store") => ~touchpad_active'
          /\ (touchpad_active' # touchpad_active)
               => \/ (mw_pc = "store" /\ mw_pc' # "store")
                  \/ (rw_pc = "store" /\ rw_pc' # "store")
          /\ (re_events' # re_events \/ out' # out)
               => touchpad_active' = touchpad_active
         ]_vars

C10_Witness ==
    /\ lastFlagEvent = FlagEvent("release", TRUE)
    /\ ~touchpad_active /\ out # <<>> /\ Last(out).dev = "mouse"

\* C11: the emissions, in emission order, are the events in delivery order
\* (the i-th emission comes from the i-th fetched event, and what is left of
\* the batch is the rest of the delivered events); every emitting step takes
\* exactly the head of the batch and routes it by the flag as it is at that
\* step, so a flag change inside a batch affects only the later events.
C11_DeliveryOrder ==
    /\ [](/\ Len(fetched) = Len(out) + Len(re_events)
          /\ \A i \in 1..Len(out) :
                 out[i] \in {Routed(fetched[i], TRUE),
                             Routed(fetched[i], FALSE)}
          /\ \A i \in 1..Len(re_events) :
                 re_events[i] = fetched[Len(out) + i])
    /\ [][out' # out =>
             /\ re_events # <<>> /\ re_events' = Tail(re_events)
             /\ out' = Append(out, Routed(Head(re_events), touchpad_active))
         ]_vars

\* Half-way through the batch <<KEY_F 1, KEY_D 1>>: KEY_F was forwarded with
\* the flag false, the flag is true now and KEY_D is still to be routed.
C11_Witness ==
    /\ fetched = <<InputEvent("EV_KEY", "KEY_F", 1),
                   InputEvent("EV_KEY", "KEY_D", 1)>>
    /\ out = <<Forwarded(InputEvent("EV_KEY", "KEY_F", 1))>>
    /\ re_events = <<InputEvent("EV_KEY", "KEY_D", 1)>>
    /\ touchpad_active

\* This step is the Release Watcher taking an event that is not a
\* finger-release off the queue.
OtherTouchEventStep ==
    /\ rw_pc = "event" /\ tpQueue # <<>>
    /\ Head(tpQueue) # InputEvent("EV_KEY", "BTN_TOOL_FINGER", 0)
    /\ tpQueue' = Tail(tpQueue)

\* The line is made of whitespace only, or has no marker in it.
HasNoMarker(line) == \A i \in 1..Len(line) : line[i] # "POINTER_MOTION"

\* This step is the Motion Watcher taking an empty or marker-less line off
\* the pipe.
OtherLineStep ==
    /\ mw_pc = "read" /\ pipe # <<>> /\ HasNoMarker(Head(pipe))
    /\ pipe' = Tail(pipe)

\* The store of either watcher.
MotionStoreStep == mw_pc = "store" /\ mw_pc' # "store"
ReleaseStoreStep == rw_pc = "store" /\ rw_pc' # "store"

\* C17: a touchpad event other than BTN_TOOL_FINGER value 0 (BTN_TOOL_FINGER
\* value 1 among them) leaves the flag alone and leads to no store; so does
\* an empty line or a line without the marker; and the flag goes from false
\* to true only in the store of the Motion Watcher.
C17_OnlyTwoTriggers ==
    [][/\ OtherTouchEventStep
            => (touchpad_active' = touchpad_active /\ rw_pc' = "event"
                   /\ notice' = "none" /\ lastFlagEvent' = lastFlagEvent)
       /\ OtherLineStep
            => (touchpad_active' = touchpad_active /\ mw_pc' = "read"
                   /\ notice' = "none" /\ lastFlagEvent' = lastFlagEvent)
       /\ (~touchpad_active /\ touchpad_active') => MotionStoreStep
      ]_vars

\* The finger came back after a processed release: its BTN_TOOL_FINGER 1
\* has been taken off the queue and the flag is still false.
C17_Witness ==
    /\ finger /\ tpQueue = <<>> /\ rw_pc = "event"
    /\ lastFlagEvent = FlagEvent("release", TRUE)
    /\ ~touchpad_active /\ mw_pc = "read" /\ pipe = <<>>

\* C18: whatever the interleaving of the two load-then-store sequences (the
\* debounce sleep included), a pending store of true finds the flag false
\* and a pending store of false finds it true, so every store changes the
\* flag; with the flag false at start the stores alternate, true first.
C18_StoresAlternate ==
    /\ touchpad_active = FALSE
    /\ [](mw_pc = "store" => ~touchpad_active)
    /\ [](rw_pc = "store" => touchpad_active)
    /\ [][/\ MotionStoreStep => (~touchpad_active /\ touchpad_active')
          /\ ReleaseStoreStep => (touchpad_active /\ ~touchpad_active')
         ]_vars

\* After a store of true and a store of false that followed a sleep, the
\* Motion Watcher has loaded false again and is about to store true.
C18_Witness ==
    /\ debounce_ms > 0 /\ mw_pc = "store"
    /\ lastFlagEvent = FlagEvent("release", TRUE)
    /\ ~touchpad_active

\* C19: every emission on the virtual mouse is a key event of BTN_LEFT or
\* BTN_RIGHT, with the value of the KEY_F (for BTN_LEFT) or KEY_D (for
\* BTN_RIGHT) key event it comes from; no other button, no relative axis,
\* nothing for any other key or for a non-key event.
C19_MouseOnlyLeftRight ==
    \A i \in 1..Len(out) :
        out[i].dev = "mouse" =>
            /\ out[i].ev.type = "EV_KEY"
            /\ out[i].ev.code \in {"BTN_LEFT", "BTN_RIGHT"}
            /\ fetched[i].type = "EV_KEY"
            /\ fetched[i].code =
                   (IF out[i].ev.code = "BTN_LEFT" THEN "KEY_F" ELSE "KEY_D")
            /\ fetched[i].value = out[i].ev.value

\* With the flag true, KEY_D went to the mouse and KEY_A, in the same
\* state of the flag, to the keyboard.
C19_Witness ==
    /\ touchpad_active /\ lastFlagEvent = FlagEvent("motion", TRUE)
    /\ out = <<Remapped(InputEvent("EV_KEY", "KEY_D", 1)),
               Forwarded(InputEvent("EV_KEY", "KEY_A", 1))>>

\* C20: on the virtual keyboard, a release of KEY_F or KEY_D is preceded by
\* a press of that key with no release between, and once the physical key is
\* released and its release processed, every press forwarded to the virtual
\* keyboard has its release there.
C20_KeyboardPairing ==
    \A k \in DOMAIN RemapTable :
        LET idx == {i \in 1..Len(out) :
                       /\ out[i].dev = "kbd" /\ out[i].ev.type = "EV_KEY"
                       /\ out[i].ev.code = k}
        IN  /\ \A j \in idx :
                   out[j].ev.value = 0
                       => \E i \in idx :
                              /\ i < j /\ out[i].ev.value = 1
                              /\ \A m \in idx :
                                     (i < m /\ m < j) => out[m].ev.value # 0
            /\ (k \notin keysDown /\ re_events = <<>>)
                   => \A i \in idx :
                          out[i].ev.value = 1
                              => \E m \in idx : i < m /\ out[m].ev.value = 0

\* C16: the virtual keyboard create_virtual_keyboard builds advertises a key
\* set, a relative-axis set and a switch set each equal to the physical
\* keyboard's, an absent set of the physical keyboard being absent on the
\* virtual one.
C16_CapabilitiesPropagated ==
    vkbd_caps # None =>
        /\ supported_keys(vkbd_caps) = supported_keys(phys_caps)
        /\ supported_relative_axes(vkbd_caps)
               = supported_relative_axes(phys_caps)
        /\ supported_switches(vkbd_caps) = supported_switches(phys_caps)

\* Built for a keyboard with no key set at all, an empty relative-axis set
\* and a switch.
C16_Witness ==
    /\ vkbd_caps # None /\ "vkbd" \in devices
    /\ supported_keys(phys_caps) = None
    /\ supported_relative_axes(phys_caps) = Some({})
    /\ supported_switches(phys_caps) = Some({"SW_LID"})

\* A watcher has returned, with either outcome.
MotionWatcherEnded == mw_pc \in {"ok", "err"}
ReleaseWatcherEnded == rw_pc = "err"

\* C12: once monitor_keyboard has failed (open, grab, build of a virtual
\* device, fetch or emit) nothing more is emitted, and the process exits,
\* with a non-zero status, whatever the two watchers are doing: as soon as
\* main holds the engine's error, nothing stands between it and the exit.
C12_EngineFailureFatal ==
    /\ []((re_pc = "failed" /\ main_pc = "await") => ENABLED Main_Join)
    /\ []((re_pc = "failed" /\ main_pc = "shutdown") => ENABLED Main_Exit)
    /\ [](main_pc = "exited" => exit_code # 0)
    /\ [][re_pc = "failed" => out' = out]_vars

\* C13: a watcher that returns (spawn, open, fetch or stream failure) takes
\* neither the process nor the Remap Engine with it: the step leaves main and
\* the engine where they are, main leaves its await only on the engine's
\* failure, and with a watcher gone the engine still takes the next event
\* and emits exactly its routing by the flag's current value.
C13_WatcherFailureNotFatal ==
    /\ [](main_pc # "await" => re_pc = "failed")
    /\ []((/\ MotionWatcherEnded \/ ReleaseWatcherEnded
           /\ re_pc = "loop" /\ re_events # <<>>) => ENABLED RE_Event)
    /\ [][/\ \/ (~MotionWatcherEnded /\ MotionWatcherEnded')
             \/ (~ReleaseWatcherEnded /\ ReleaseWatcherEnded')
            => UNCHANGED <<re_pc, main_pc, exit_code, devices, re_events,
                           out, touchpad_active>>
          /\ ((MotionWatcherEnded \/ ReleaseWatcherEnded) /\ EngineStep)
            => out' = Append(out, Routed(Head(re_events), touchpad_active))
         ]_vars

\* Both watchers have failed, the flag is stuck at true, and the last step
\* of any worker is the engine's remap of a KEY_F press.
C13_Witness ==
    /\ mw_pc = "err" /\ rw_pc = "err"
    /\ re_pc = "loop" /\ main_pc = "await" /\ exit_code = -1
    /\ notice = "F LEFT CLICK"
    /\ out = <<Remapped(InputEvent("EV_KEY", "KEY_F", 1))>>

\* C14: the Motion Watcher never returns with a success outcome: the end of
\* the child's output and a line that fails to decode both end it with an
\* error; once it has returned, the child is not spawned again and the flag
\* is never raised again.
C14_StreamEndIsError ==
    /\ [](mw_pc # "ok")
    /\ [][/\ (mw_pc = "read" /\ pipe # <<>> /\ ~ValidUtf8(Head(pipe))
                /\ pipe' = Tail(pipe)) => mw_pc' = "err"
          /\ MotionWatcherEnded
               => /\ mw_pc' \in {mw_pc, "gone"}
                  /\ (child # "running" => child' # "running")
                  /\ (~touchpad_active => ~touchpad_active')
         ]_vars

\* C15: READY=1 is sent at most once, by a step that finds the keyboard
\* grabbed and both virtual devices built and no keyboard event fetched or
\* emitted yet; that step enters the loop whether the notification was
\* delivered or not, and no event is fetched before it.
C15_ReadyOnce ==
    /\ [](Len(ready) <= 1)
    /\ [](nKeys > 0 => Len(ready) = 1)
    /\ [][ready' # ready =>
             /\ ready = <<>>
             /\ devices = AllDevices /\ vkbd_caps # None
             /\ nKeys = 0 /\ fetched = <<>> /\ out = <<>>
             /\ re_pc' = "loop"
         ]_vars

\* The notification was not delivered and the engine has emitted an event.
C15_Witness ==
    /\ ready = <<FALSE>> /\ re_pc = "loop" /\ Len(out) = 1

====
